---- MODULE Spec2Model ----
(***************************************************************************)
(* The chat endpoint, generate() and the recursive handle_response() of    *)
(* lab_5/web_app/backend, with the weather tool chain and the two Model    *)
(* Armor checks.  The LLM backend, the screening service, the geocoder and *)
(* the NOAA API are the environment: their answers are chosen with \E.     *)
(***************************************************************************)
EXTENDS Integers, Sequences, FiniteSets, TLC

\* Tool rounds the backend may request within one request.
MaxRounds == 3
\* Parts in the first candidate of one backend response.
MaxParts == 2
\* Requests the endpoint serves, one after the other.
MaxRequests == 2

\* Python's None where a string is expected / where an object is expected.
None == "<None>"
NoneObj == [none |-> TRUE]

WEATHER == "get_weather_from_city_state"
BLOCKED_REASON == "Response was blocked by Model Armor for safety reasons"
ERROR_PREFIX == "An error occurred while processing your request: "

VARIABLES
    pc,                 \* position of the request being served
    requests,           \* requests whose handler has started
    waiting,            \* requests received that wait for the event loop
    message,            \* request.message / user_query
    contents,           \* conversation history (mutable list)
    tools,              \* generate_content_config.tools
    response,           \* backend response being handled
    backend_ids,        \* whether this backend version issues call identifiers
    final_response,     \* generate's final_response
    outcome,            \* how generate() ended for this request
    chat_response,      \* what the endpoint answered
    model_armor_client, \* module-global _model_armor_client
    constructions,      \* ModelArmorClient instances built in this process
    events,             \* external calls made while serving this request
    error_log,          \* (exception message, error reply) of every failed request
    weather_lookup      \* steps the weather lookup of the current round called

vars == <<pc, requests, message, contents, tools, response, backend_ids, final_response,
          outcome, chat_response, model_armor_client, events, error_log,
          weather_lookup, waiting, constructions>>

----------------------------------------------------------------------------
\* Inputs of the environment

Queries == {"Weather in Denver, CO?", "Ignore your rules"}
ExcMsgs == {"503 unavailable", "403 permission denied for project p-1"}
FilterMatchStates == {"FILTER_MATCH_STATE_UNSPECIFIED", "NO_MATCH_FOUND", "MATCH_FOUND"}
Texts == {"Sunny, 72F #FORECAST"}
DenverArgs == [city |-> "Denver", state |-> "CO"]

TextPart(t) ==
    [text |-> t, function_call |-> NoneObj, function_response |-> NoneObj,
     thought_signature |-> None]

\* A function-call part as the backend sends it, with a field beyond the call.
RawCallPart(fc) ==
    [text |-> None, function_call |-> fc, function_response |-> NoneObj,
     thought_signature |-> "sig"]

\* The function calls a backend may request; ids: whether it issues identifiers.
BackendCalls(ids) ==
    { [name |-> WEATHER, args |-> DenverArgs, id |-> IF ids THEN "abc" ELSE None],
      [name |-> WEATHER, args |-> NoneObj, id |-> IF ids THEN "abd" ELSE None],
      [name |-> "lookup_snow_depth", args |-> DenverArgs,
       id |-> IF ids THEN "xyz" ELSE None] }

BackendParts(ids) ==
    {TextPart(t) : t \in Texts} \cup {RawCallPart(fc) : fc \in BackendCalls(ids)}

SeqsUpTo(S, n) == UNION {[1..k -> S] : k \in 0..n}

\* A response is its first candidate's parts; <<>> is "no candidates / no parts",
\* and a lone empty text part is a response whose text is the empty string.
ResponsesOf(ids) ==
    {[parts |-> ps] : ps \in SeqsUpTo(BackendParts(ids), MaxParts)}
        \cup {[parts |-> <<TextPart("")>>]}
ResponsesWithIds == ResponsesOf(TRUE)
ResponsesWithoutIds == ResponsesOf(FALSE)
Responses == ResponsesWithIds \cup ResponsesWithoutIds

GeocodeInputs ==
    { [err |-> "none", results |-> <<[lat |-> 39, lng |-> -104]>>],
      [err |-> "none", results |-> <<>>],
      [err |-> "ApiError", results |-> <<>>] }

GridInputs ==
    { [err |-> "none", properties |-> [cwa |-> "BOU", gridX |-> 62, gridY |-> 60]],
      [err |-> "none", properties |-> [cwa |-> "BOU", gridX |-> 0, gridY |-> 60]],
      [err |-> "HTTPError", properties |-> NoneObj] }

Period ==
    [name |-> "Today", temperature |-> 72, temperatureUnit |-> "F",
     windSpeed |-> "5 mph", windDirection |-> "NW", detailedForecast |-> "Clear"]

ForecastInputs ==
    { [err |-> "none", periods |-> <<Period>>],
      [err |-> "none", periods |-> <<>>],
      [err |-> "HTTPError", periods |-> <<>>] }

GeocodeOk == [err |-> "none", results |-> <<[lat |-> 39, lng |-> -104]>>]
GridOk == [err |-> "none", properties |-> [cwa |-> "BOU", gridX |-> 62, gridY |-> 60]]
ForecastOk == [err |-> "none", periods |-> <<Period>>]

\* Answers of the geocoder and of NOAA to one lookup: a step that fails ends the
\* chain, so the answers of the steps after it are never asked for.
WeatherInputs ==
    {[geo |-> g, grid |-> GridOk, fc |-> ForecastOk] : g \in GeocodeInputs}
    \cup {[geo |-> GeocodeOk, grid |-> g, fc |-> ForecastOk] : g \in GridInputs}
    \cup {[geo |-> GeocodeOk, grid |-> GridOk, fc |-> f] : f \in ForecastInputs}

----------------------------------------------------------------------------
\* weather.py

\* Coordinates of the first geocoding result, or None.
get_lat_long_from_city(geo) ==
    IF geo.err # "none" THEN NoneObj
    ELSE IF geo.results # <<>> THEN geo.results[1]
    ELSE NoneObj

\* (wfo, grid_x, grid_y) of the point, or None.
get_grid_points(grid) ==
    IF grid.err # "none" THEN NoneObj
    ELSE [wfo |-> grid.properties.cwa,
          grid_x |-> grid.properties.gridX,
          grid_y |-> grid.properties.gridY]

FormatForecast(p) ==
    "\n--- Today's Forecast ---"
        \o "**Period:** " \o p.name
        \o "**Temperature:** " \o ToString(p.temperature) \o "deg" \o p.temperatureUnit
        \o "**Wind:** " \o p.windSpeed \o " from " \o p.windDirection
        \o "**Details:** " \o p.detailedForecast

\* The formatted first period, or None.
get_todays_forecast(wfo, grid_x, grid_y, fc) ==
    IF wfo = "" \/ grid_x = 0 \/ grid_y = 0 THEN None
    ELSE IF fc.err # "none" THEN None
    ELSE IF fc.periods # <<>> THEN FormatForecast(fc.periods[1])
    ELSE None

\* The three-step chain: a forecast string, or None if any step fails.
get_weather_from_city_state(geo, grid, fc) ==
    LET coordinates == get_lat_long_from_city(geo)
        grid_data == get_grid_points(grid)
    IN  IF coordinates = NoneObj THEN None
        ELSE IF grid_data = NoneObj THEN None
        ELSE get_todays_forecast(grid_data.wfo, grid_data.grid_x, grid_data.grid_y, fc)

\* The chain calling all three steps whatever the earlier ones returned.
WeatherCallsEager(geo, grid) ==
    <<"get_lat_long_from_city", "get_grid_points", "get_todays_forecast">>

\* The steps get_weather_from_city_state calls, in the order it calls them.
WeatherCalls(geo, grid) ==
    LET coordinates == get_lat_long_from_city(geo)
        grid_data == get_grid_points(grid)
    IN  IF coordinates = NoneObj THEN <<"get_lat_long_from_city">>
        ELSE IF grid_data = NoneObj
        THEN <<"get_lat_long_from_city", "get_grid_points">>
        ELSE <<"get_lat_long_from_city", "get_grid_points", "get_todays_forecast">>

\* The steps that cannot succeed on these answers of the geocoder and of NOAA:
\* no geocoding result, no grid data, no forecast period or no usable grid.
FailingSteps(w) ==
    (IF w.geo.err # "none" \/ w.geo.results = <<>>
     THEN {"get_lat_long_from_city"} ELSE {})
    \cup (IF w.grid.err # "none" THEN {"get_grid_points"} ELSE {})
    \cup (IF \/ w.fc.err # "none"
              \/ w.fc.periods = <<>>
              \/ w.grid.err # "none"
              \/ w.grid.properties.gridX = 0
              \/ w.grid.properties.gridY = 0
              \/ w.grid.properties.cwa = ""
          THEN {"get_todays_forecast"} ELSE {})

----------------------------------------------------------------------------
\* model_armor.py

\* A get_model_armor_client that builds a client on every call.
get_model_armor_client_always_new(client, constructed, ctor_raises) ==
    IF ctor_raises
    THEN [client |-> client, constructed |-> constructed]
    ELSE [client |-> "ModelArmorClient#" \o ToString(constructed + 1),
          constructed |-> constructed + 1]

\* The global after the call (also the value returned) and the clients built so
\* far: the constructor runs only while the global is None, and a constructor
\* that raises leaves the global None.
get_model_armor_client(client, constructed, ctor_raises) ==
    IF client = None
    THEN IF ctor_raises
         THEN [client |-> None, constructed |-> constructed]
         ELSE [client |-> "ModelArmorClient#" \o ToString(constructed + 1),
               constructed |-> constructed + 1]
    ELSE [client |-> client, constructed |-> constructed]

\* The prompt check that takes NO_MATCH_FOUND alone for safe.
check_prompt_only_no_match(filter_match_state) ==
    filter_match_state = "NO_MATCH_FOUND"

\* The prompt check with the comparison turned around.
check_prompt_inverted(filter_match_state) ==
    filter_match_state = "MATCH_FOUND"

\* TRUE: safe to proceed; FALSE: blocked.
check_prompt_with_model_armor(filter_match_state) ==
    LET match_found == (filter_match_state = "MATCH_FOUND")
    IN  IF match_found THEN FALSE ELSE TRUE

\* The response check that never looks at the verdict.
check_response_ignoring_verdict(filter_match_state) == TRUE

check_response_with_model_armor(filter_match_state) ==
    LET match_found == (filter_match_state = "MATCH_FOUND")
    IN  IF match_found THEN FALSE ELSE TRUE

----------------------------------------------------------------------------
\* core.py: pure parts of handle_response

RECURSIVE JoinText(_)
JoinText(ps) ==
    IF ps = <<>> THEN ""
    ELSE (IF Head(ps).text # None THEN Head(ps).text ELSE "") \o JoinText(Tail(ps))

\* response.text: the text parts of the first candidate joined, None without any.
ResponseText(resp) ==
    IF \E i \in 1..Len(resp.parts) : resp.parts[i].text # None
    THEN JoinText(resp.parts)
    ELSE None

\* The base case reading the first part alone instead of response.text.
BaseCaseFirstPartOnly(resp) ==
    LET text == IF resp.parts # <<>> THEN resp.parts[1].text ELSE None
    IN  IF text # None /\ text # "" THEN text ELSE None

\* The base case with "is not None" in place of the truth test.
BaseCaseNotNone(resp) ==
    LET text == ResponseText(resp)
    IN  IF text # None THEN text ELSE None

\* handle_response's base case: response.text if it is truthy, else None.
BaseCaseResult(resp) ==
    LET text == ResponseText(resp)
    IN  IF text # None /\ text # "" THEN text ELSE None

HasFunctionCall(resp) ==
    \E i \in 1..Len(resp.parts) : resp.parts[i].function_call # NoneObj

\* The scan without its break: the last part carrying a function call.
LastFunctionCallPart(resp) ==
    IF HasFunctionCall(resp)
    THEN LET i == CHOOSE k \in 1..Len(resp.parts) :
                    /\ resp.parts[k].function_call # NoneObj
                    /\ \A j \in (k + 1)..Len(resp.parts) :
                           resp.parts[j].function_call = NoneObj
         IN  resp.parts[i]
    ELSE NoneObj

\* The first part carrying a function call, or None.
FirstFunctionCallPart(resp) ==
    IF HasFunctionCall(resp)
    THEN LET i == CHOOSE k \in 1..Len(resp.parts) :
                    /\ resp.parts[k].function_call # NoneObj
                    /\ \A j \in 1..(k - 1) : resp.parts[j].function_call = NoneObj
         IN  resp.parts[i]
    ELSE NoneObj

\* The identifier with an absent one turned into the empty string.
CallIdOrEmpty(function_obj) ==
    IF function_obj.id = None THEN "" ELSE function_obj.id

\* call_id = getattr(function_obj, "id", None)
CallId(function_obj) == function_obj.id

\* The tool branch without the test of the tool's name: any requested function
\* is answered with the weather lookup.
ToolResultPartAnyName(function_obj, geo, grid, fc) ==
    IF function_obj.args = NoneObj
    THEN NoneObj
    ELSE [text |-> None, function_call |-> NoneObj,
          function_response |->
              [name |-> WEATHER,
               response |-> [content |-> get_weather_from_city_state(geo, grid, fc)],
               id |-> CallId(function_obj)],
          thought_signature |-> None]

\* The tool-response part, or None when no result was produced.
ToolResultPart(function_obj, geo, grid, fc) ==
    IF function_obj.name = WEATHER
    THEN IF function_obj.args = NoneObj
         THEN NoneObj   \* args.get raises, the except leaves result_part unset
         ELSE [text |-> None, function_call |-> NoneObj,
               function_response |->
                   [name |-> WEATHER,
                    response |-> [content |-> get_weather_from_city_state(geo, grid, fc)],
                    id |-> CallId(function_obj)],
               thought_signature |-> None]
    ELSE NoneObj

\* A test that never fires: the round goes on without a result.
NoResultNever(result_part) == FALSE

\* if not result_part: a Part object is truthy whatever it carries.
NoResult(result_part) == result_part = NoneObj

\* The model turn echoing the raw part, its extra field included.
RawModelTurn(function_obj) ==
    [role |-> "model", parts |-> <<RawCallPart(function_obj)>>]

\* The model turn rebuilt from name, args and id only.
SanitizedModelTurn(function_obj) ==
    [role |-> "model",
     parts |-> << [text |-> None,
                   function_call |-> [name |-> function_obj.name,
                                      args |-> function_obj.args,
                                      id |-> CallId(function_obj)],
                   function_response |-> NoneObj,
                   thought_signature |-> None] >>]

ToolTurn(result_part) == [role |-> "tool", parts |-> <<result_part>>]

\* contents.append(sanitized_model_turn); contents.append(tool_turn)
AppendRound(cs, function_obj, result_part) ==
    Append(Append(cs, SanitizedModelTurn(function_obj)), ToolTurn(result_part))

UserTurn(user_query) == [role |-> "user", parts |-> <<TextPart(user_query)>>]

\* generate's system_instructions, shortened.
SYSTEM_INSTRUCTIONS == "You are a helpful AI assistant. "

\* generate's enhanced_user_query: computed, then used by nothing.
enhanced_user_query(user_query) == SYSTEM_INSTRUCTIONS \o user_query

\* The initial history built from the enhanced query.
InitialContentsEnhanced(user_query) == <<UserTurn(enhanced_user_query(user_query))>>

\* generate's contents as first built: one user turn holding user_query.
InitialContents(user_query) == <<UserTurn(user_query)>>

\* config.tools[:-1]
DropLast(ts) == SubSeq(ts, 1, Len(ts) - 1)

\* config.tools[1:]
DropFirst(ts) == SubSeq(ts, 2, Len(ts))

\* One tool list kept at module level: a request starts from the list the
\* request before it left behind.
AllToolsShared ==
    IF requests = 0 THEN <<"retrieval_tool", "x_weather_tool">> ELSE tools

\* generate's all_tools, a list built anew by every call.
AllTools == <<"retrieval_tool", "x_weather_tool">>

\* Tool rounds completed so far in this request.
Rounds == (Len(contents) - 1) \div 2

----------------------------------------------------------------------------
\* One external call made while serving the request.
Event(op, result, text, cs, ts) ==
    [op |-> op, outcome |-> result, text |-> text, contents |-> cs, tools |-> ts]

Running == [kind |-> "running", value |-> None]
NoReply == [kind |-> "none"]

\* The ChatResponse with blocked left at its default.
ChatReplyDefaultBlocked(result) ==
    IF result = None
    THEN [kind |-> "ChatResponse", response |-> None, blocked |-> FALSE,
          blocked_reason |-> BLOCKED_REASON]
    ELSE [kind |-> "ChatResponse", response |-> result, blocked |-> FALSE,
          blocked_reason |-> None]

\* routers/chat.py: the ChatResponse built from generate's result.
ChatReply(result) ==
    IF result = None
    THEN [kind |-> "ChatResponse", response |-> None, blocked |-> TRUE,
          blocked_reason |-> BLOCKED_REASON]
    ELSE [kind |-> "ChatResponse", response |-> result, blocked |-> FALSE,
          blocked_reason |-> None]

\* routers/chat.py: the HTTPException raised for an exception e out of generate.
ErrorReply(e) ==
    [kind |-> "HTTPException", status_code |-> 500, detail |-> ERROR_PREFIX \o e]

\* generate returns result to chat, which answers the request.
GenerateReturns(result) ==
    /\ outcome' = [kind |-> "returned", value |-> result]
    /\ chat_response' = ChatReply(result)
    /\ error_log' = error_log
    /\ response' = NoneObj
    /\ pc' = "done"

\* The exception caught inside generate, as if the raising call stood in its try.
GenerateCatches(e) == GenerateReturns(None)

\* generate raises e to chat, which answers with the HTTPException.
GenerateRaises(e) ==
    /\ outcome' = [kind |-> "raised", value |-> e]
    /\ chat_response' = ErrorReply(e)
    /\ error_log' = error_log \cup {[exc |-> e, reply |-> ErrorReply(e)]}
    /\ response' = NoneObj
    /\ pc' = "done"

Init ==
    /\ pc = "idle"
    /\ requests = 0
    /\ waiting = 0
    /\ message = None
    /\ contents = <<>>
    /\ tools = <<>>
    /\ response = NoneObj
    /\ backend_ids = FALSE
    /\ final_response = None
    /\ outcome = Running
    /\ chat_response = NoReply
    /\ model_armor_client = None
    /\ constructions = 0
    /\ events = <<>>
    /\ error_log = {}
    /\ weather_lookup = NoneObj

\* A request reaches the server, whatever the handler of an earlier one is
\* doing; it waits until the event loop is free.
Arrive ==
    /\ requests + waiting < MaxRequests
    /\ waiting' = waiting + 1
    /\ UNCHANGED <<pc, requests, message, contents, tools, response, backend_ids,
                   final_response, outcome, chat_response, model_armor_client,
                   constructions, events, error_log, weather_lookup>>

\* The event loop starts chat() on a waiting request once no handler is running
\* (chat is async and never awaits); generate() builds history and configuration.
ChatRequest(q, ids) ==
    /\ pc \in {"idle", "done"}
    /\ waiting > 0
    /\ waiting' = waiting - 1
    /\ requests' = requests + 1
    /\ message' = q
    /\ contents' = InitialContents(q)
    /\ tools' = AllTools
    /\ response' = NoneObj
    /\ backend_ids' = ids
    /\ final_response' = None
    /\ outcome' = Running
    /\ chat_response' = NoReply
    /\ events' = <<>>
    /\ weather_lookup' = NoneObj
    /\ pc' = "check_prompt"
    /\ UNCHANGED <<model_armor_client, constructions, error_log>>

\* What the screening service decided: the ground truth of a screening event.
Verdict(v) == IF v = "MATCH_FOUND" THEN "block" ELSE "allow"

\* generate step 6: the prompt check; v is the service's verdict, or it raises e,
\* in the client's constructor (ctor_raises) or in the screening call.
CheckPrompt(v, e, ctor_raises) ==
    /\ pc = "check_prompt"
    /\ ctor_raises => (e # None /\ model_armor_client = None)
    /\ model_armor_client' =
           get_model_armor_client(model_armor_client, constructions, ctor_raises).client
    /\ constructions' =
           get_model_armor_client(model_armor_client, constructions,
                                  ctor_raises).constructed
    /\ events' = Append(events,
                        Event("screen_prompt", IF e # None THEN "error" ELSE Verdict(v),
                              message, <<>>, <<>>))
    /\ IF e # None
       THEN GenerateRaises(e)
       ELSE IF ~check_prompt_with_model_armor(v)
       THEN GenerateReturns(None)
       ELSE /\ pc' = "initial_call"
            /\ UNCHANGED <<outcome, chat_response, error_log, response>>
    /\ UNCHANGED <<requests, waiting, message, contents, tools, backend_ids,
                   final_response, weather_lookup>>

\* What the backend may answer: a response of its version, with a function call
\* only while the round cap allows; NoneObj stands for a call that raises.
BackendMayAnswer(r) ==
    \/ r = NoneObj
    \/ /\ r \in (IF backend_ids THEN ResponsesWithIds ELSE ResponsesWithoutIds)
       /\ HasFunctionCall(r) => Rounds < MaxRounds

\* generate step 7: the initial generate_content call.
InitialCall(r) ==
    /\ pc = "initial_call"
    /\ BackendMayAnswer(r)
    /\ events' = Append(events,
                        Event("backend", IF r = NoneObj THEN "error" ELSE "ok",
                              None, contents, tools))
    /\ IF r = NoneObj
       THEN GenerateReturns(None)
       ELSE /\ response' = r
            /\ pc' = "handle_response"
            /\ UNCHANGED <<outcome, chat_response, error_log>>
    /\ UNCHANGED <<requests, waiting, message, contents, tools, backend_ids,
                   final_response, model_armor_client, constructions, weather_lookup>>

\* handle_response on a response with a function call, up to the recursive call;
\* w holds the answers of the geocoder and of NOAA.
HandleFunctionCall(w) ==
    /\ pc = "handle_response"
    /\ FirstFunctionCallPart(response) # NoneObj
    /\ LET function_obj == FirstFunctionCallPart(response).function_call
           result_part == ToolResultPart(function_obj, w.geo, w.grid, w.fc)
           called == function_obj.name = WEATHER /\ function_obj.args # NoneObj
           tool_event ==
               IF called
               THEN Event("tool",
                          IF get_weather_from_city_state(w.geo, w.grid, w.fc) = None
                          THEN "fail" ELSE "ok",
                          function_obj.name, <<>>, <<>>)
               ELSE Event("no_tool",
                          IF function_obj.name = WEATHER THEN "raised" ELSE "unknown",
                          function_obj.name, <<>>, <<>>)
       IN  /\ events' = Append(events, tool_event)
           /\ weather_lookup' =
                  IF called
                  THEN [calls |-> WeatherCalls(w.geo, w.grid), failing |-> FailingSteps(w)]
                  ELSE NoneObj
           /\ IF NoResult(result_part)
              THEN /\ GenerateReturns(None)
                   /\ UNCHANGED <<contents, tools>>
              ELSE /\ contents' = AppendRound(contents, function_obj, result_part)
                   /\ tools' = DropFirst(tools)
                   /\ pc' = "recursive_call"
                   /\ UNCHANGED <<outcome, chat_response, error_log, response>>
    /\ UNCHANGED <<requests, waiting, message, backend_ids, final_response,
                   model_armor_client, constructions>>

\* handle_response on a response without a function call: the base case, and
\* generate's test of what it returned.
HandleText ==
    /\ pc = "handle_response"
    /\ FirstFunctionCallPart(response) = NoneObj
    /\ LET text == ResponseText(response)
       IN  /\ events' = Append(events,
                               Event("text", IF text = None \/ text = "" THEN "empty"
                                             ELSE "text",
                                     text, <<>>, <<>>))
           /\ final_response' = BaseCaseResult(response)
           /\ IF final_response' \notin {None, ""}
              THEN /\ response' = NoneObj
                   /\ pc' = "check_response"
                   /\ UNCHANGED <<outcome, chat_response, error_log>>
              ELSE GenerateReturns(None)
    /\ UNCHANGED <<requests, waiting, message, contents, tools, backend_ids,
                   model_armor_client, constructions, weather_lookup>>

\* handle_response's recursive generate_content call.
RecursiveCall(r) ==
    /\ pc = "recursive_call"
    /\ BackendMayAnswer(r)
    /\ events' = Append(events,
                        Event("backend", IF r = NoneObj THEN "error" ELSE "ok",
                              None, contents, tools))
    /\ IF r = NoneObj
       THEN GenerateReturns(None)
       ELSE /\ response' = r
            /\ pc' = "handle_response"
            /\ UNCHANGED <<outcome, chat_response, error_log>>
    /\ weather_lookup' = NoneObj
    /\ UNCHANGED <<requests, waiting, message, contents, tools, backend_ids,
                   final_response, model_armor_client, constructions>>

\* The response check failing open: an error of the check lets the text through.
CheckedResponseFailOpen(v, raises, text) ==
    IF raises THEN text
    ELSE IF check_response_with_model_armor(v) THEN text
    ELSE None

\* generate step 9 and the except: what generate returns after the response check.
CheckedResponse(v, raises, text) ==
    IF raises THEN None
    ELSE IF check_response_with_model_armor(v) THEN text
    ELSE None

\* generate step 9: the response check; v is the verdict, or the call raises.
CheckResponse(v, raises) ==
    /\ pc = "check_response"
    /\ model_armor_client' =
           get_model_armor_client(model_armor_client, constructions, FALSE).client
    /\ constructions' =
           get_model_armor_client(model_armor_client, constructions, FALSE).constructed
    /\ events' = Append(events,
                        Event("screen_response", IF raises THEN "error" ELSE Verdict(v),
                              final_response, <<>>, <<>>))
    /\ GenerateReturns(CheckedResponse(v, raises, final_response))
    /\ UNCHANGED <<requests, waiting, message, contents, tools, backend_ids,
                   final_response, weather_lookup>>

Next ==
    \/ Arrive
    \/ \E q \in Queries, ids \in BOOLEAN : ChatRequest(q, ids)
    \/ \E v \in FilterMatchStates, e \in ExcMsgs \cup {None}, ctor_raises \in BOOLEAN :
           CheckPrompt(v, e, ctor_raises)
    \/ \E r \in Responses \cup {NoneObj} : InitialCall(r)
    \/ \E w \in WeatherInputs : HandleFunctionCall(w)
    \/ HandleText
    \/ \E r \in Responses \cup {NoneObj} : RecursiveCall(r)
    \/ \E v \in FilterMatchStates, raises \in BOOLEAN : CheckResponse(v, raises)

Spec == Init /\ [][Next]_vars

----------------------------------------------------------------------------
\* Vocabulary of the properties

Returned(v) == outcome = [kind |-> "returned", value |-> v]

\* Some event of this request is an op with this outcome.
Happened(op, result) ==
    \E i \in 1..Len(events) : events[i].op = op /\ events[i].outcome = result

BackendIdx == {i \in 1..Len(events) : events[i].op = "backend"}

\* The round of the backend call at position i: 0 for the initial call, N for the
\* re-invocation of tool round N.
RoundOf(i) == Cardinality({j \in BackendIdx : j < i})

Max(a, b) == IF a >= b THEN a ELSE b

\* The tool turns of the history.
ToolTurns == {k \in 1..Len(contents) : contents[k].role = "tool"}

\* Part i is the first part of ps that carries a function call.
IsFirstCall(ps, i) ==
    /\ i \in 1..Len(ps)
    /\ ps[i].function_call # NoneObj
    /\ \A j \in 1..(i - 1) : ps[j].function_call = NoneObj

\* The endpoint handed answer text to the caller.
AnswerDelivered == chat_response.kind = "ChatResponse" /\ chat_response.response # None

----------------------------------------------------------------------------
\* C1: whenever the tool executor fails in a tool round (the weather chain
\* returning its failure signal included), the request ends there with a null
\* result: no call follows the failure, and history holds no tool result made
\* of the failure.
C1_ToolFailureAborts ==
    \A i \in 1..Len(events) :
        (events[i].op \in {"tool", "no_tool"} /\ events[i].outcome # "ok") =>
            /\ i = Len(events)
            /\ pc = "done"
            /\ Returned(None)
            /\ \A k \in ToolTurns :
                   contents[k].parts[1].function_response.response.content # None

\* C2: generate returns a text only if prompt screening allowed the user query
\* and response screening allowed exactly that text; a blocked response check
\* gives null although a well-formed answer had been produced.
C2_NonNullOnlyIfBothScreeningsAllowed ==
    /\ (outcome.kind = "returned" /\ outcome.value # None) =>
           /\ \E i \in 1..Len(events) :
                  /\ events[i] = Event("screen_prompt", "allow", message, <<>>, <<>>)
           /\ events[Len(events)] =
                  Event("screen_response", "allow", outcome.value, <<>>, <<>>)
           /\ ~Happened("screen_prompt", "block") /\ ~Happened("screen_prompt", "error")
           /\ ~Happened("screen_response", "block")
           /\ ~Happened("screen_response", "error")
    /\ Happened("screen_response", "block") =>
           /\ Returned(None)
           /\ final_response \notin {None, ""}
           /\ events[Len(events)].text = final_response

C2_Witness ==
    /\ outcome.kind = "returned"
    /\ outcome.value # None
    /\ Len(contents) >= 3

\* C3: after a block verdict of prompt screening generate returns null, and in
\* that execution the backend is never called, no tool runs and the response is
\* never screened.
C3_PromptBlockNeverCallsBackend ==
    Happened("screen_prompt", "block") =>
        /\ pc = "done"
        /\ Returned(None)
        /\ \A i \in 1..Len(events) :
               events[i].op \notin {"backend", "tool", "no_tool", "text", "screen_response"}
        /\ Len(contents) = 1

C3_Witness ==
    /\ Happened("screen_prompt", "block")
    /\ chat_response.kind = "ChatResponse"

\* The step at position i is one of the four failures of the error taxonomy.
FailureAt(i) ==
    \/ events[i].op \in {"screen_prompt", "screen_response"} /\ events[i].outcome = "block"
    \/ events[i].op \in {"tool", "no_tool"} /\ events[i].outcome # "ok"
    \/ events[i].op = "backend" /\ events[i].outcome = "error"
    \/ events[i].op = "text" /\ events[i].outcome = "empty"

\* C4: a policy block, a tool execution failure, a backend transport failure
\* and an empty final answer each make generate return null without raising,
\* and no tool execution or backend call follows the failing step.
C4_EveryFailureEndsInNull ==
    \A i \in 1..Len(events) :
        FailureAt(i) =>
            /\ \A j \in (i + 1)..Len(events) :
                   events[j].op \notin {"backend", "tool", "no_tool"}
            /\ pc = "done" => Returned(None)

\* C5: a transport error of the screening service fails closed: after one in
\* prompt screening the backend is never called, and after one in either
\* screening the caller gets no answer text.
C5_ScreeningErrorFailsClosed ==
    /\ Happened("screen_prompt", "error") =>
           /\ BackendIdx = {}
           /\ pc = "done"
           /\ ~AnswerDelivered
    /\ Happened("screen_response", "error") =>
           /\ pc = "done"
           /\ ~AnswerDelivered

C5_Witness ==
    /\ Happened("screen_response", "error")
    /\ final_response # None
    /\ chat_response.kind = "ChatResponse"

\* C6: the tool list passed to the backend on the re-invocation of round N >= 1
\* has max(0, 2 - N) entries, the initial two (retrieval first, weather second)
\* with the first dropped once per round.
C6_ToolListShrinksByOnePerRound ==
    \A i \in BackendIdx :
        LET N == RoundOf(i)
        IN  /\ Len(events[i].tools) = Max(0, 2 - N)
            /\ events[i].tools =
                   SubSeq(<<"retrieval_tool", "x_weather_tool">>, N + 1, 2)

C6_Witness ==
    \E i \in BackendIdx : RoundOf(i) = 3 /\ events[i].tools = <<>>

\* C7: every function-result part of the history carries the call identifier of
\* the function-call part of the turn just before it, and that identifier is
\* the one the backend issued, None included.
C7_ResultEchoesCallId ==
    /\ \A k \in ToolTurns :
           /\ k > 1
           /\ contents[k - 1].role = "model"
           /\ contents[k].parts[1].function_response.id =
                  contents[k - 1].parts[1].function_call.id
    /\ pc = "recursive_call" =>
           \E i \in 1..Len(response.parts) :
               /\ IsFirstCall(response.parts, i)
               /\ contents[Len(contents)].parts[1].function_response.id =
                      response.parts[i].function_call.id

C7_Witness ==
    /\ pc = "recursive_call"
    /\ contents[Len(contents)].parts[1].function_response.id = None
    /\ Len(contents) >= 5

\* C8: of a response with one or more function-call parts only the first, in
\* part order, is dispatched: its tool is the one invoked and it is the one
\* recorded in history; the later function-call parts are ignored.
C8_OnlyFirstFunctionCallDispatched ==
    /\ pc = "recursive_call" =>
           \E i \in 1..Len(response.parts) :
               /\ IsFirstCall(response.parts, i)
               /\ events[Len(events)].op = "tool"
               /\ events[Len(events)].text = response.parts[i].function_call.name
               /\ contents[Len(contents) - 1].parts[1].function_call =
                      response.parts[i].function_call
               /\ Len(contents[Len(contents) - 1].parts) = 1
               /\ contents[Len(contents)].parts[1].function_response.name =
                      response.parts[i].function_call.name
               /\ Len(contents[Len(contents)].parts) = 1
    /\ Cardinality({i \in 1..Len(events) : events[i].op \in {"tool", "no_tool"}})
           <= Cardinality({i \in BackendIdx : events[i].outcome = "ok"})
    /\ Len(contents) <=
           1 + 2 * Cardinality({i \in 1..Len(events) : events[i].op = "tool"})

C8_Witness ==
    /\ pc = "recursive_call"
    /\ Len(response.parts) = 2
    /\ response.parts[1].function_call # NoneObj
    /\ response.parts[2].function_call # NoneObj
    /\ response.parts[1].function_call # response.parts[2].function_call

\* C9: the endpoint answers {response: text, blocked: false} exactly when
\* generate returned a text and {response: null, blocked: true, blocked_reason:
\* a string} exactly when it returned null: blocked iff response is null.
C9_BlockedIffResponseNull ==
    /\ outcome.kind = "returned" =>
           /\ chat_response.kind = "ChatResponse"
           /\ chat_response.response = outcome.value
           /\ chat_response.blocked = (outcome.value = None)
           /\ outcome.value = None => chat_response.blocked_reason # None
    /\ chat_response.kind = "ChatResponse" =>
           /\ outcome.kind = "returned"
           /\ chat_response.blocked <=> (chat_response.response = None)

C9_Witness ==
    /\ chat_response.kind = "ChatResponse"
    /\ chat_response.blocked
    /\ Happened("backend", "error")

\* C10: the error answer for an exception out of generate does not depend on the
\* exception: any two failed requests got identical error replies.
C10_ErrorReplyIndependentOfException ==
    \A a \in error_log, b \in error_log : a.reply = b.reply

\* The initial backend call was answered with plain, non-empty text.
InitialTextAnswer ==
    /\ Len(events) >= 3
    /\ events[2].op = "backend"
    /\ events[3].op = "text"
    /\ events[3].outcome = "text"

\* C11: an initial response without a function call and with non-empty text is
\* returned as it is: no tool runs, history and tool list stay as they were,
\* no further backend call is made, and the response screening is invoked at
\* most once, on that very text.
C11_PlainTextAnswerIsReturnedDirectly ==
    InitialTextAnswer =>
        /\ final_response = events[3].text
        /\ contents = <<UserTurn(message)>>
        /\ tools = <<"retrieval_tool", "x_weather_tool">>
        /\ BackendIdx = {2}
        /\ \A i \in 1..Len(events) : events[i].op \notin {"tool", "no_tool"}
        /\ \/ pc = "check_response" /\ Len(events) = 3
           \/ /\ pc = "done"
              /\ Len(events) = 4
              /\ events[4].op = "screen_response"
              /\ events[4].text = events[3].text

C11_Witness ==
    /\ InitialTextAnswer
    /\ pc = "done"
    /\ Returned(events[3].text)

\* One successful weather round followed by a plain text answer.
WeatherRoundThenText ==
    /\ Len(events) >= 5
    /\ events[2].op = "backend"
    /\ events[3].op = "tool" /\ events[3].outcome = "ok"
    /\ events[4].op = "backend"
    /\ events[5].op = "text" /\ events[5].outcome = "text"

\* C12: when the response asks for get_weather_from_city_state, the tool
\* succeeds and the next response is plain text, the tool ran once, the backend
\* was re-invoked once with a history ending in the sanitized function-call turn
\* and the tool turn holding the payload under the key content, and the second
\* response's text is the final result.
C12_WeatherRoundThenTextAnswer ==
    WeatherRoundThenText =>
        LET call == [name |-> "get_weather_from_city_state",
                     args |-> [city |-> "Denver", state |-> "CO"],
                     id |-> IF backend_ids THEN "abc" ELSE None]
            sent == events[4].contents
        IN  /\ Cardinality({i \in 1..Len(events) : events[i].op = "tool"}) = 1
            /\ BackendIdx = {2, 4}
            /\ Len(sent) = 3
            /\ sent[1] = UserTurn(message)
            /\ sent[2] = [role |-> "model",
                          parts |-> << [text |-> None, function_call |-> call,
                                        function_response |-> NoneObj,
                                        thought_signature |-> None] >>]
            /\ sent[3].role = "tool"
            /\ Len(sent[3].parts) = 1
            /\ sent[3].parts[1].function_response.name = "get_weather_from_city_state"
            /\ DOMAIN sent[3].parts[1].function_response.response = {"content"}
            /\ sent[3].parts[1].function_response.response.content =
                   FormatForecast(Period)
            /\ contents = sent
            /\ final_response = events[5].text
            /\ pc = "done" /\ outcome.value # None => Returned(events[5].text)

C12_Witness ==
    /\ WeatherRoundThenText
    /\ pc = "done"
    /\ Returned(events[5].text)

\* C13: each screening operation answers false exactly for the verdict
\* MATCH_FOUND and true for every other verdict, and a block is that value
\* false, not an error: a blocked prompt ends the request with a returned null,
\* an allowed prompt goes on to the backend, a blocked response gives null and
\* an allowed response is returned.
C13_ScreeningFalseIffMatchFound ==
    /\ Happened("screen_prompt", "block") =>
           /\ pc = "done"
           /\ outcome.kind = "returned"
           /\ chat_response.kind = "ChatResponse"
           /\ Len(events) = 1
    /\ Happened("screen_prompt", "allow") =>
           /\ outcome.kind # "raised"
           /\ Len(events) = 1 => pc = "initial_call"
    /\ Happened("screen_response", "block") =>
           /\ outcome.kind = "returned"
           /\ outcome.value = None
    /\ Happened("screen_response", "allow") =>
           /\ outcome.kind = "returned"
           /\ outcome.value = final_response
           /\ outcome.value # None

C13_Witness ==
    /\ Happened("screen_prompt", "allow")
    /\ Happened("screen_response", "block")
    /\ chat_response.kind = "ChatResponse"

\* The history cs is the user turn of query q followed by (model, tool) pairs.
UserTurnThenPairs(cs, q) ==
    /\ Len(cs) % 2 = 1
    /\ cs[1] = UserTurn(q)
    /\ \A k \in 2..Len(cs) :
           IF k % 2 = 0
           THEN cs[k].role = "model" /\ cs[k].parts[1].function_call # NoneObj
           ELSE cs[k].role = "tool" /\ cs[k].parts[1].function_response # NoneObj

\* Tool rounds of this request whose tool execution succeeded.
SuccessfulRounds ==
    Cardinality({i \in 1..Len(events) : events[i].op = "tool" /\ events[i].outcome = "ok"})

\* A step leaves the history alone or appends one (model, tool) pair to it; a
\* new request starts a new history.
AppendOnlyStep ==
    IF pc' = "check_prompt"
    THEN contents' = <<UserTurn(message')>>
    ELSE /\ Len(contents') \in {Len(contents), Len(contents) + 2}
         /\ SubSeq(contents', 1, Len(contents)) = contents
         /\ UserTurnThenPairs(contents', message')
         /\ Len(contents') = Len(contents) + 2 =>
                /\ pc = "handle_response"
                /\ pc' = "recursive_call"

HistoryStepsAppendOnly == [][AppendOnlyStep]_vars

\* Event b may come right after event a within one execution of generate.
EventMayFollow(a, b) ==
    \/ a.op = "screen_prompt" /\ a.outcome = "allow" /\ b.op = "backend"
    \/ a.op = "backend" /\ a.outcome = "ok" /\ b.op \in {"tool", "no_tool", "text"}
    \/ a.op = "tool" /\ b.op = "backend"
    \/ a.op = "text" /\ a.outcome = "text" /\ b.op = "screen_response"

\* The tool executions that were followed by a backend re-invocation.
RoundsReinvoked ==
    {i \in 1..(Len(events) - 1) : events[i].op = "tool" /\ events[i + 1].op = "backend"}

\* Where generate stands after its last event.
PositionAfter(e) ==
    IF e.op = "screen_prompt" /\ e.outcome = "allow" THEN "initial_call"
    ELSE IF e.op = "backend" /\ e.outcome = "ok" THEN "handle_response"
    ELSE IF e.op = "tool" THEN "recursive_call"
    ELSE IF e.op = "text" /\ e.outcome = "text" THEN "check_response"
    ELSE "done"

\* C15: in every execution of generate the events come one at a time in the
\* order prompt screening, initial backend call, zero or more rounds of one tool
\* execution followed by one backend re-invocation, at most one response
\* screening, return; the backend calls number 1 plus the tool rounds that
\* reached re-invocation, and nothing is called after response screening.
C15_EventsInOrder ==
    /\ pc = "check_prompt" <=> (requests > 0 /\ events = <<>>)
    /\ events # <<>> =>
          /\ events[1].op = "screen_prompt"
          /\ pc = PositionAfter(events[Len(events)])
    /\ \A i \in 1..(Len(events) - 1) : EventMayFollow(events[i], events[i + 1])
    /\ \A i \in 1..Len(events) :
          /\ events[i].op = "screen_prompt" => i = 1
          /\ events[i].op = "screen_response" => i = Len(events) /\ pc = "done"
    /\ BackendIdx # {} =>
          /\ Cardinality(BackendIdx) = 1 + Cardinality(RoundsReinvoked)
          /\ Cardinality(BackendIdx) =
                 1 + Rounds - (IF pc = "recursive_call" THEN 1 ELSE 0)
    /\ BackendIdx = {} => Len(contents) <= 1 /\ RoundsReinvoked = {}

\* Two tool rounds were re-invoked, a text came back and was screened.
C15_Witness ==
    /\ pc = "done"
    /\ Cardinality(RoundsReinvoked) = 2
    /\ Cardinality(BackendIdx) = 3
    /\ events[Len(events)].op = "screen_response"

\* C17: when a backend response has no function-call part and no text (none at
\* all, or the empty string), handle_response returns null and generate returns
\* null without invoking response screening; handle_response returns nothing
\* but a non-empty text or null.
C17_EmptyAnswerReturnsNull ==
    /\ final_response # ""
    /\ final_response # None =>
          \E i \in 1..Len(events) :
              /\ events[i].op = "text"
              /\ events[i].outcome = "text"
              /\ events[i].text = final_response
    /\ \A i \in 1..Len(events) :
          (events[i].op = "text" /\ events[i].text \in {None, ""}) =>
              /\ events[i].outcome = "empty"
              /\ i = Len(events)
              /\ final_response = None
              /\ pc = "done"
              /\ Returned(None)
              /\ ~\E j \in 1..Len(events) : events[j].op = "screen_response"

\* A response whose only text is the empty string ended the request.
C17_Witness ==
    /\ pc = "done"
    /\ events # <<>>
    /\ events[Len(events)].op = "text"
    /\ events[Len(events)].text = ""

\* The payload of the tool result appended by the current round.
LookupResult == contents[Len(contents)].parts[1].function_response.response.content

\* C20: the weather lookup runs geocode, grid-resolve, forecast-fetch in that
\* order and short-circuits: after a failing geocode no later step is called,
\* after a failing grid-resolve forecast-fetch is not called, and the result is
\* a forecast string only when all three steps succeeded, the failure signal
\* otherwise.
C20_WeatherChainShortCircuits ==
    weather_lookup # NoneObj =>
        LET calls == weather_lookup.calls
            failing == weather_lookup.failing
            order == <<"get_lat_long_from_city", "get_grid_points", "get_todays_forecast">>
        IN  /\ Len(calls) \in 1..3
            /\ calls = SubSeq(order, 1, Len(calls))
            /\ \A i \in 1..Len(calls) :
                   (calls[i] \in failing /\ i < 3) => i = Len(calls)
            /\ \A i \in 1..(Len(calls) - 1) : calls[i] \notin failing
            /\ Len(calls) < 3 => calls[Len(calls)] \in failing
            /\ pc = "recursive_call"
            /\ LookupResult # None <=>
                   (Len(calls) = 3 /\ \A i \in 1..3 : calls[i] \notin failing)
            /\ LookupResult # None => LookupResult = FormatForecast(Period)

\* A lookup stopped after a failing geocode, with the failure signal as result.
C20_Witness ==
    /\ weather_lookup # NoneObj
    /\ weather_lookup.calls = <<"get_lat_long_from_city">>
    /\ "get_lat_long_from_city" \in weather_lookup.failing
    /\ LookupResult = None

\* A lookup stopped after a failing grid-resolve.
GridFailureReached ==
    /\ weather_lookup # NoneObj
    /\ weather_lookup.calls = <<"get_lat_long_from_city", "get_grid_points">>

\* A lookup whose three steps succeeded.
ForecastReached ==
    /\ weather_lookup # NoneObj
    /\ weather_lookup.failing = {}
    /\ LookupResult # None

\* The screening calls of the request being served.
ScreeningCalls ==
    {i \in 1..Len(events) : events[i].op \in {"screen_prompt", "screen_response"}}

EndsLoop(e) ==
    \/ e.op = "text"
    \/ e.op \in {"tool", "no_tool"} /\ e.outcome # "ok"
    \/ e.op = "backend" /\ e.outcome = "error"

\* C16: handle_response has no round cap of its own: after every successful
\* tool execution it calls the backend again, whatever the number of rounds so
\* far, and it hands a response with a function call to the tool executor; it
\* reaches its terminal output (text or null) in the first round where the
\* response has no function-call part or a step fails, after which no tool is
\* executed and no backend call is made.
C16_LoopRunsUntilTextOrFailure ==
    \A i \in 1..Len(events) :
        /\ (events[i].op = "tool" /\ events[i].outcome = "ok") =>
               IF i = Len(events) THEN pc = "recursive_call"
               ELSE events[i + 1].op = "backend"
        /\ (events[i].op = "backend" /\ events[i].outcome = "ok") =>
               IF i = Len(events) THEN pc = "handle_response"
               ELSE events[i + 1].op \in {"tool", "no_tool", "text"}
        /\ EndsLoop(events[i]) =>
               /\ pc \in {"check_response", "done"}
               /\ \A j \in (i + 1)..Len(events) : events[j].op = "screen_response"

\* C21: when handle_response returns null because no tool result was produced
\* (a tool name other than get_weather_from_city_state, or a tool call that
\* raised), the history and the tool list are those it was entered with, the
\* ones of the backend call whose response it handles, and no backend call
\* follows; for an unknown tool name no step of the weather lookup runs.
C21_NoResultLeavesHistoryAndTools ==
    \A i \in 1..Len(events) :
        events[i].op = "no_tool" =>
            /\ i = Len(events)
            /\ i > 1
            /\ events[i - 1].op = "backend"
            /\ contents = events[i - 1].contents
            /\ tools = events[i - 1].tools
            /\ pc = "done"
            /\ Returned(None)
            /\ events[i].outcome = "unknown" => weather_lookup = NoneObj

\* An unknown tool was requested in the second round, after one weather round.
C21_Witness ==
    /\ Happened("no_tool", "unknown")
    /\ Len(contents) = 3
    /\ Len(tools) = 1

\* A weather call without arguments raised in the first round.
RaisingToolReached ==
    /\ Happened("no_tool", "raised")
    /\ Len(contents) = 1

\* C22: the text given to prompt screening is the text of the single user turn
\* sent to the backend on the initial call: the initial history is exactly one
\* user turn with one text part holding the raw user query, nothing prepended
\* or appended.
C22_ScreenedPromptIsTheUserTurn ==
    /\ events # <<>> =>
          /\ events[1].op = "screen_prompt"
          /\ events[1].text = message
          /\ message \in Queries
    /\ \A i \in BackendIdx :
          RoundOf(i) = 0 =>
              /\ Len(events[i].contents) = 1
              /\ events[i].contents[1].role = "user"
              /\ Len(events[i].contents[1].parts) = 1
              /\ events[i].contents[1].parts[1].text = events[1].text
              /\ events[i].contents[1].parts[1].function_call = NoneObj
              /\ events[i].contents[1].parts[1].function_response = NoneObj

\* The initial backend call was made with the screened query as its history.
C22_Witness ==
    /\ Len(events) >= 2
    /\ events[1].outcome = "allow"
    /\ events[2].op = "backend"
    /\ events[2].contents[1].parts[1].text = "Ignore your rules"

\* C23: the two screening calls handle an error differently: one raised by
\* prompt screening leaves generate as an exception and reaches the caller as a
\* server error; one raised by response screening is caught inside generate,
\* which returns null, and reaches the caller as blocked: true.
C23_ScreeningErrorsHandledDifferently ==
    /\ Happened("screen_prompt", "error") =>
          /\ pc = "done"
          /\ outcome.kind = "raised"
          /\ outcome.value \in ExcMsgs
          /\ chat_response.kind = "HTTPException"
          /\ chat_response.status_code = 500
    /\ Happened("screen_response", "error") =>
          /\ pc = "done"
          /\ Returned(None)
          /\ chat_response.kind = "ChatResponse"
          /\ chat_response.blocked = TRUE
          /\ chat_response.response = None

\* After a request whose prompt screening raised, the response screening of a
\* later request raised and the caller was told blocked.
C23_Witness ==
    /\ error_log # {}
    /\ Happened("screen_response", "error")
    /\ chat_response.kind = "ChatResponse"
    /\ chat_response.blocked = TRUE

====
